---- MODULE Spec2Model ----
(***************************************************************************)
(* Model of src/main.rs (bitbox-torture): the `fill` and `stat`            *)
(* subcommands driving an mdbx or rocksdb engine.                          *)
(*                                                                         *)
(* The program is single threaded; `pc` is the position of main().  The    *)
(* engine, the filesystem and the random generator are external           *)
(* collaborators: the engine is a key/value store (`store`) that can fail  *)
(* where the code handles a Result, the filesystem is the kind of object   *)
(* found at cli.path (`path`), and the generator is identified by the      *)
(* number of 64-bit words drawn since it was seeded (`rand`): the seed is  *)
(* a constant, so the bytes produced are a function of that position.      *)
(* A key or value is named by the position at which its bytes were drawn.  *)
(***************************************************************************)
EXTENDS Integers, Sequences, FiniteSets, TLC

\* ---------------------------------------------------------------- bounds
MaxN == 3
MaxBatch == 3

\* history window: long enough to hold every transaction of a run with
\* batch_sz >= 1 (at most max(n, 1) of them) and two stdout lines for each
MaxHist == MaxN + 1
MaxOut == 2 * MaxN + 3

\* ------------------------------------------------------------- constants
\* vec![0; 32] filled from a generator producing 8 bytes per word
KeyWords == 4

EngineKinds == {"mdbx", "rocksdb"}
SubCommands == {"fill", "stat"}
\* value_sz in bytes
ValueSizes == {0, 32}
\* cold in tenths: 0.0, 0.3, 1.0 and the out-of-range 1.5
Colds == {0, 3, 10, 15}

\* a key no run of this program generates, and the first key every run
\* generates (the pool is empty, so no word is drawn before it)
ForeignKey == 0 - 1
FirstKey == 0
PriorValue == <<0 - 1>>

EmptyStore == [k \in {} |-> PriorValue]
PriorStores == { [k \in {ForeignKey} |-> PriorValue],
                 [k \in {ForeignKey, FirstKey} |-> PriorValue] }

VARIABLES
  cli,        \* the parsed command line (Cli and FillOpts), never changed
  pc,         \* position of main(): start, open, begin, batch, done, failed, panicked
  path,       \* what is found at cli.path: "absent", "file" or "dir"
  store,      \* committed content of the database at cli.path: key -> value
  fs0,        \* path and store as they were when the process started
  policy,     \* branch taken by the pre-flight check of fill_database
  removes,    \* calls of std::fs::remove_file
  opens,      \* successful calls of Engine::open
  flushes,    \* explicit sync calls issued on the engine
  rand,       \* words drawn from the Pcg64 since it was seeded
  keys,       \* the key pool
  remaining,  \* items still to insert
  i,          \* iterations of `for _ in 0..batch_sz` done in this batch
  txs,        \* transactions begun, oldest first (window of MaxHist)
  begun,      \* id of the next transaction, modulo MaxHist + 1
  stdout,     \* lines printed (window of MaxOut)
  err,        \* the error or panic the process ends with, "none" so far
  twin,       \* two fill loops run side by side (TwinSpec), else empty
  stream      \* generator output looked at so far: position -> word (TwinSpec)

\* the state of one process
procVars == <<pc, path, store, fs0, policy, removes, opens, flushes,
              rand, keys, remaining, i, txs, begun, stdout, err>>

vars == <<cli, procVars, twin, stream>>

\* ------------------------------------------------------------- helpers
\* append to a bounded history, dropping the oldest entry when it is full
SatAppend(s, e, cap) ==
  IF Len(s) < cap THEN Append(s, e) ELSE Append(Tail(s), e)

Line(t, items) == [t |-> t, items |-> items]

\* Rng::fill_bytes on a buffer of `bytes` bytes: one word per 8 bytes
WordsFor(bytes) == (bytes + 7) \div 8

\* the value drawn at generator position pos; all empty values are equal
ValueAt(pos, value_sz) == IF value_sz = 0 THEN <<>> ELSE <<pos, value_sz>>

\* [k -> v] written over a store
StorePut(s, k, v) ==
  [x \in (DOMAIN s) \cup {k} |-> IF x = k THEN v ELSE s[x]]

RECURSIVE ApplyPuts(_, _)
ApplyPuts(s, puts) ==
  IF puts = <<>> THEN s
  ELSE ApplyPuts(StorePut(s, Head(puts).key, Head(puts).value), Tail(puts))

\* ----------------------------------------------------------------- Init
\* `stat` carries no FillOpts
NoFillOpts == [n |-> 0, batch_sz |-> 0, value_sz |-> 0, cold |-> 0]

Globals ==
  [kind : EngineKinds, y : BOOLEAN, cont : BOOLEAN, yolo : BOOLEAN]

FillOpts ==
  [n : 0..MaxN, batch_sz : 0..MaxBatch, value_sz : ValueSizes, cold : Colds]

MkCli(subcmd, g, o) ==
  [subcmd |-> subcmd, kind |-> g.kind, y |-> g.y, cont |-> g.cont,
   yolo |-> g.yolo, n |-> o.n, batch_sz |-> o.batch_sz,
   value_sz |-> o.value_sz, cold |-> o.cold]

Cli ==
  {MkCli("fill", g, o) : g \in Globals, o \in FillOpts}
    \cup {MkCli("stat", g, NoFillOpts) : g \in Globals}

Init ==
  /\ cli \in Cli
  /\ pc = "start"
  /\ \/ path = "absent" /\ store = EmptyStore
     \/ path \in {"file", "dir"} /\ store \in PriorStores
  /\ fs0 = [path |-> path, store |-> store]
  /\ policy = "none"
  /\ removes = 0
  /\ opens = 0
  /\ flushes = 0
  /\ rand = 0
  /\ keys = <<>>
  /\ remaining = 0
  /\ i = 0
  /\ txs = <<>>
  /\ begun = 0
  /\ stdout = <<>>
  /\ err = "none"
  /\ twin = <<>>
  /\ stream = <<>>

\* ------------------------------------------------------------ pre-flight
Exists == path # "absent"

\* std::fs::remove_file(&cli.path) unlinks a file; on a directory it returns
\* an error and removes nothing
RemoveFilePath == IF path = "file" THEN "absent" ELSE path
RemoveFileStore == IF path = "file" THEN EmptyStore ELSE store

\* mutant: the final `else` continues instead of bailing out
ResolvePolicyNoAbort ==
  IF cli.y THEN "overwrite" ELSE "continue"

\* mutant: --cont is taken for -y
ResolvePolicyContRemoves ==
  IF cli.y \/ cli.cont THEN "overwrite" ELSE "abort"

\* mutant: --cont is tested before -y
ResolvePolicyContFirst ==
  IF cli.cont THEN "continue" ELSE IF cli.y THEN "overwrite" ELSE "abort"

\* the branch of the pre-flight check taken for an existing path
ResolvePolicy ==
  IF cli.y THEN "overwrite" ELSE IF cli.cont THEN "continue" ELSE "abort"

\* path exists, -y: print, remove_file with its Result discarded (`let _ =`),
\* go on
PreflightOverwrite ==
  /\ pc = "start" /\ cli.subcmd = "fill"
  /\ Exists /\ ResolvePolicy = "overwrite"
  /\ path' = RemoveFilePath
  /\ store' = RemoveFileStore
  /\ removes' = removes + 1
  /\ policy' = "overwrite"
  /\ stdout' = SatAppend(SatAppend(stdout, Line("removing", 0), MaxOut),
                         Line("opening", 0), MaxOut)
  /\ pc' = "open"
  /\ UNCHANGED <<twin, stream, cli, err, fs0, opens, flushes, rand, keys, remaining, i, txs, begun>>

\* path exists, --cont without -y: print and go on
PreflightContinue ==
  /\ pc = "start" /\ cli.subcmd = "fill"
  /\ Exists /\ ResolvePolicy = "continue"
  /\ policy' = "continue"
  /\ stdout' = SatAppend(SatAppend(stdout, Line("continuing", 0), MaxOut),
                         Line("opening", 0), MaxOut)
  /\ pc' = "open"
  /\ UNCHANGED <<twin, stream, cli, err, path, store, fs0, removes, opens, flushes, rand, keys,
                 remaining, i, txs, begun>>

\* path exists, neither flag: anyhow::bail!
PreflightAbort ==
  /\ pc = "start" /\ cli.subcmd = "fill"
  /\ Exists /\ ResolvePolicy = "abort"
  /\ policy' = "abort"
  /\ pc' = "failed"
  /\ err' = "exists"
  /\ UNCHANGED <<twin, stream, cli, path, store, fs0, removes, opens, flushes, rand, keys,
                 remaining, i, txs, begun, stdout>>

\* nothing at the path: no policy applies
PreflightFresh ==
  /\ pc = "start" /\ cli.subcmd = "fill"
  /\ ~Exists
  /\ stdout' = SatAppend(stdout, Line("opening", 0), MaxOut)
  /\ pc' = "open"
  /\ UNCHANGED <<twin, stream, cli, err, path, store, fs0, policy, removes, opens, flushes, rand,
                 keys, remaining, i, txs, begun>>

\* stat_database goes straight to Engine::open
StatStart ==
  /\ pc = "start" /\ cli.subcmd = "stat"
  /\ pc' = "open"
  /\ UNCHANGED <<twin, stream, cli, err, path, store, fs0, policy, removes, opens, flushes, rand,
                 keys, remaining, i, txs, begun, stdout>>

\* ------------------------------------------------------------ Engine::open
\* both backends create their directory when nothing is at the path; mdbx
\* opens a single file as a database, rocksdb needs a directory
CanOpen == ~(cli.kind = "rocksdb" /\ path = "file")

OpenedPath == IF path = "absent" THEN "dir" ELSE path

\* let mut remaining = fill_ops.n
InitialRemaining == cli.n

OpenOk ==
  /\ pc = "open"
  /\ CanOpen
  /\ path' = OpenedPath
  /\ opens' = opens + 1
  /\ IF cli.subcmd = "fill"
       THEN /\ rand' = 0
            /\ keys' = <<>>
            /\ remaining' = InitialRemaining
            /\ pc' = "begin"
       ELSE /\ pc' = "stat"
            /\ UNCHANGED <<rand, keys, remaining>>
  /\ UNCHANGED <<twin, stream, cli, err, store, fs0, policy, removes, flushes, i, txs, begun, stdout>>

\* Engine::open(cli)? returns the backend's error
OpenFail ==
  /\ pc = "open"
  /\ pc' = "failed"
  /\ err' = "open"
  /\ UNCHANGED <<twin, stream, cli, path, store, fs0, policy, removes, opens, flushes, rand,
                 keys, remaining, i, txs, begun, stdout>>

\* ------------------------------------------------------------ print_stat
\* the snapshot string is returned to stat_database, which drops it
StatOk ==
  /\ pc = "stat"
  /\ pc' = "done"
  /\ UNCHANGED <<twin, stream, cli, err, path, store, fs0, policy, removes, opens, flushes, rand,
                 keys, remaining, i, txs, begun, stdout>>

\* env.begin_ro_txn()? (mdbx only)
StatFail ==
  /\ pc = "stat"
  /\ cli.kind = "mdbx"
  /\ pc' = "failed"
  /\ err' = "stat"
  /\ UNCHANGED <<twin, stream, cli, path, store, fs0, policy, removes, opens, flushes, rand,
                 keys, remaining, i, txs, begun, stdout>>

\* ------------------------------------------------------------- the loop
NewTx(id) == [id |-> id, puts |-> <<>>, status |-> "open", calls |-> 0]

\* the transaction bound to `txn` in the current iteration of the loop
CurTx == txs[Len(txs)]

SetCur(t) == [txs EXCEPT ![Len(txs)] = t]

\* mutant: the range is inclusive (0..=batch_sz)
InForInclusive == i <= cli.batch_sz

\* `for _ in 0..fill_ops.batch_sz` has iterations left
InFor == i < cli.batch_sz

\* mutant: the for loop never looks at remaining
BreakForMissing == FALSE

\* `if remaining == 0 { break; }`
BreakFor == remaining = 0

\* the body of the for loop runs once more
MorePuts == InFor /\ ~BreakFor

\* mutant: `txn` is begun once, before the loop, and used by every batch
BeginOkReuse ==
  /\ pc = "begin"
  /\ txs' = IF txs = <<>> THEN SatAppend(txs, NewTx(begun), MaxHist) ELSE txs
  /\ begun' = IF txs = <<>> THEN (begun + 1) % (MaxHist + 1) ELSE begun
  /\ i' = 0
  /\ pc' = "batch"
  /\ UNCHANGED <<twin, stream, cli, err, path, store, fs0, policy, removes, opens, flushes,
                 rand, keys, remaining, stdout>>

\* env.begin().unwrap() succeeded
BeginOk ==
  /\ pc = "begin"
  /\ txs' = SatAppend(txs, NewTx(begun), MaxHist)
  /\ begun' = (begun + 1) % (MaxHist + 1)
  /\ i' = 0
  /\ pc' = "batch"
  /\ UNCHANGED <<twin, stream, cli, err, path, store, fs0, policy, removes, opens, flushes, rand,
                 keys, remaining, stdout>>

\* env.begin().unwrap() panics: only mdbx's begin returns errors
BeginPanic ==
  /\ pc = "begin"
  /\ cli.kind = "mdbx"
  /\ pc' = "panicked"
  /\ err' = "begin"
  /\ UNCHANGED <<twin, stream, cli, path, store, fs0, policy, removes, opens, flushes, rand,
                 keys, remaining, i, txs, begun, stdout>>

\* Rng::gen_bool(p): panics unless 0 <= p <= 1
GenBoolValid(p) == 0 <= p /\ p <= 10

\* p = 1 answers true without drawing; anything else draws one word
GenBoolWords(p) == IF p = 10 THEN 0 ELSE 1

\* mutant: p = 1 is compared like any other probability and can answer false
GenBoolOutcomesOneMayFail(p) ==
  IF p = 0 THEN {FALSE} ELSE BOOLEAN

\* mutant: p = 0 can answer true
GenBoolOutcomesZeroMayPass(p) ==
  IF p = 10 THEN {TRUE} ELSE BOOLEAN

\* the answers gen_bool(p) can give
GenBoolOutcomes(p) ==
  IF p = 10 THEN {TRUE} ELSE IF p = 0 THEN {FALSE} ELSE BOOLEAN

\* `keys.is_empty() || rand.gen_bool(cold)`: is gen_bool evaluated
AsksGenBool == keys # <<>>

\* mutant: the new key is returned without being pushed to the pool
ColdKeyNoPush(r) ==
  [key |-> r, keys |-> keys, rand |-> r + KeyWords]

\* a new key: 32 bytes drawn at position r, pushed to the pool
ColdKey(r) ==
  [key |-> r, keys |-> Append(keys, r), rand |-> r + KeyWords]

\* mutant: the reused key is taken out of the pool (keys.swap_remove(idx))
WarmKeyRemoved(r, idx) ==
  [key |-> keys[idx + 1],
   keys |-> IF idx + 1 = Len(keys)
              THEN SubSeq(keys, 1, Len(keys) - 1)
              ELSE SubSeq([keys EXCEPT ![idx + 1] = keys[Len(keys)]],
                          1, Len(keys) - 1),
   rand |-> r + 1]

\* keys[rand.gen_range(0..keys.len())]: one word drawn, idx in 0..len-1
WarmKey(r, idx) ==
  [key |-> keys[idx + 1], keys |-> keys, rand |-> r + 1]

\* the key draws the code can make in the current state
KeyDraws ==
  IF ~AsksGenBool
    THEN {ColdKey(rand)}
    ELSE LET r == rand + GenBoolWords(cli.cold) IN
         {ColdKey(r) : b \in GenBoolOutcomes(cli.cold) \ {FALSE}}
           \cup {WarmKey(r, idx) : idx \in
                   IF FALSE \in GenBoolOutcomes(cli.cold)
                     THEN 0..(Len(keys) - 1) ELSE {}}

\* rand.fill_bytes(&mut data) after the key draw d
DataOf(d) == ValueAt(d.rand, cli.value_sz)
RandAfterData(d) == d.rand + WordsFor(cli.value_sz)

\* mutant: remaining is left as it was
DecrementForgotten(r) == r

\* remaining -= 1
Decrement(r) == r - 1

\* txn.put(key, data).unwrap() succeeded
PutOk ==
  /\ pc = "batch"
  /\ MorePuts
  /\ AsksGenBool => GenBoolValid(cli.cold)
  /\ \E d \in KeyDraws :
        /\ keys' = d.keys
        /\ rand' = RandAfterData(d)
        /\ txs' = SetCur([CurTx EXCEPT
                    !.puts = Append(@, [key |-> d.key, value |-> DataOf(d)])])
  /\ remaining' = Decrement(remaining)
  /\ i' = i + 1
  /\ UNCHANGED <<twin, stream, cli, err, pc, path, store, fs0, policy, removes, opens, flushes,
                 begun, stdout>>

\* txn.put(key, data).unwrap() panics: only mdbx's put returns errors; the
\* transaction is dropped with the stack
PutPanic ==
  /\ pc = "batch"
  /\ MorePuts
  /\ AsksGenBool => GenBoolValid(cli.cold)
  /\ cli.kind = "mdbx"
  /\ \E d \in KeyDraws :
        /\ keys' = d.keys
        /\ rand' = RandAfterData(d)
  /\ txs' = SetCur([CurTx EXCEPT !.status = "aborted"])
  /\ pc' = "panicked"
  /\ err' = "put"
  /\ UNCHANGED <<twin, stream, cli, path, store, fs0, policy, removes, opens, flushes,
                 remaining, i, begun, stdout>>

\* gen_bool panics on a probability outside [0, 1]
GenBoolPanic ==
  /\ pc = "batch"
  /\ MorePuts
  /\ AsksGenBool /\ ~GenBoolValid(cli.cold)
  /\ txs' = SetCur([CurTx EXCEPT !.status = "aborted"])
  /\ pc' = "panicked"
  /\ err' = "gen_bool"
  /\ UNCHANGED <<twin, stream, cli, path, store, fs0, policy, removes, opens, flushes, rand,
                 keys, remaining, i, begun, stdout>>

\* `if remaining == 0 { break; }` after the commit
LoopDone == remaining = 0

\* mutant: the cumulative count printed is what is left, not what was done
ProgressRemaining ==
  <<Line("commit", cli.batch_sz), Line("inserted", remaining)>>

\* the two progress lines printed after a commit that is not the last
Progress ==
  <<Line("commit", cli.batch_sz), Line("inserted", cli.n - remaining)>>

\* txn.commit()? succeeded: the staged puts reach the store
CommitOk ==
  /\ pc = "batch"
  /\ ~MorePuts
  /\ txs' = SetCur([CurTx EXCEPT !.status = "committed", !.calls = @ + 1])
  /\ store' = ApplyPuts(store, CurTx.puts)
  /\ IF LoopDone
       THEN /\ pc' = "done"
            /\ UNCHANGED stdout
       ELSE /\ pc' = "begin"
            /\ stdout' = SatAppend(SatAppend(stdout, Progress[1], MaxOut),
                                   Progress[2], MaxOut)
  /\ UNCHANGED <<twin, stream, cli, err, path, fs0, policy, removes, opens, flushes, rand, keys,
                 remaining, i, begun>>

\* mutant: a failed commit is skipped and the loop goes on to the next batch
CommitFailSkip ==
  /\ pc = "batch"
  /\ ~MorePuts
  /\ txs' = SetCur([CurTx EXCEPT !.status = "aborted", !.calls = @ + 1])
  /\ pc' = IF LoopDone THEN "done" ELSE "begin"
  /\ UNCHANGED <<twin, stream, cli, err, path, store, fs0, policy, removes, opens, flushes,
                 rand, keys, remaining, i, begun, stdout>>

\* txn.commit()? returns the backend's error: nothing reaches the store
CommitFail ==
  /\ pc = "batch"
  /\ ~MorePuts
  /\ txs' = SetCur([CurTx EXCEPT !.status = "aborted", !.calls = @ + 1])
  /\ pc' = "failed"
  /\ err' = "commit"
  /\ UNCHANGED <<twin, stream, cli, path, store, fs0, policy, removes, opens, flushes, rand,
                 keys, remaining, i, begun, stdout>>

\* ------------------------------------------------------------------ Spec
Next ==
  \/ PreflightOverwrite
  \/ PreflightContinue
  \/ PreflightAbort
  \/ PreflightFresh
  \/ StatStart
  \/ OpenOk
  \/ OpenFail
  \/ StatOk
  \/ StatFail
  \/ BeginOk
  \/ BeginPanic
  \/ PutOk
  \/ PutPanic
  \/ GenBoolPanic
  \/ CommitOk
  \/ CommitFail

Spec == Init /\ [][Next]_vars

\* the process is a single thread that keeps executing until it exits
FairSpec == Spec /\ WF_vars(Next)

Terminated == pc \in {"done", "failed", "panicked"}

TypeOK ==
  /\ cli \in Cli
  /\ pc \in {"start", "open", "stat", "begin", "batch", "done", "failed", "panicked"}
  /\ path \in {"absent", "file", "dir"}
  /\ policy \in {"none", "overwrite", "continue", "abort"}
  /\ remaining \in 0..MaxN
  /\ i \in 0..MaxBatch
  /\ Len(keys) <= MaxN
  /\ Len(txs) <= MaxHist
  /\ Len(stdout) <= MaxOut
  /\ err \in {"none", "exists", "open", "stat", "begin", "put", "gen_bool", "commit"}
  /\ (err = "none") = (pc \notin {"failed", "panicked"})

\* ---------------------------------------------------------- observations
IsFill == cli.subcmd = "fill"

RECURSIVE SumPuts(_)
SumPuts(ts) == IF ts = <<>> THEN 0 ELSE Len(Head(ts).puts) + SumPuts(Tail(ts))

\* puts issued so far, over all transactions
PutsIssued == SumPuts(txs)

TxIdx == 1..Len(txs)

\* keys handed to txn.put so far
KeysPut ==
  UNION {{txs[t].puts[k].key : k \in 1..Len(txs[t].puts)} : t \in TxIdx}

FillOk == IsFill /\ pc = "done"

\* the process ended on an engine operation that failed
EngineFailed == err \in {"open", "begin", "put", "commit", "stat"}

\* ------------------------------------------------------------------ C1
\* C1: the puts issued never exceed n, are exactly n when fill returns
\* success, and no transaction receives more than batch_sz puts.
C1_PutsBounded ==
  IsFill =>
    /\ PutsIssued <= cli.n
    /\ pc = "done" => PutsIssued = cli.n
    /\ \A t \in TxIdx : Len(txs[t].puts) <= cli.batch_sz

\* a successful run whose last batch was cut short to the remaining item
C1_Witness ==
  /\ FillOk /\ cli.n = 3 /\ cli.batch_sz = 2
  /\ Len(txs) = 2 /\ Len(txs[1].puts) = 2 /\ Len(txs[2].puts) = 1

\* ------------------------------------------------------------------ C2
\* C2: every fill run eventually ends, either on an error (an engine
\* operation that failed, the pre-flight check, a panic) or by returning
\* success with remaining = 0.
C2_Terminates ==
  <>(\/ ~IsFill
     \/ pc = "done" /\ remaining = 0
     \/ err # "none")

\* ------------------------------------------------------------------ C3
\* C3: a successful fill has issued exactly one explicit flush under --yolo
\* and none without it.
C3_FinalFlush ==
  FillOk => flushes = (IF cli.yolo THEN 1 ELSE 0)

\* ------------------------------------------------------------------ C4
\* C4: with -y on an existing path, nothing is left at the path when the
\* engine is opened and the store is empty when the first transaction begins.
C4_OverwriteRemoves ==
  (IsFill /\ cli.y /\ fs0.path # "absent") =>
    /\ pc = "open" => path = "absent"
    /\ (pc = "begin" /\ txs = <<>>) => store = EmptyStore

\* ------------------------------------------------------------------ C5
\* C5: once a begin, put or commit has failed the run is over and nothing
\* more is issued; fill succeeds only with n puts issued, all of them
\* committed.
C5_Stopped == pc \in {"failed", "panicked"}

C5_State ==
  IsFill =>
    /\ err # "none" => C5_Stopped
    /\ (\E t \in TxIdx : txs[t].status = "aborted") => C5_Stopped
    /\ pc = "done" =>
         /\ PutsIssued = cli.n
         /\ \A t \in TxIdx : txs[t].status = "committed"

C5_AbortsOnFailure ==
  /\ []C5_State
  /\ [][C5_Stopped => (txs' = txs /\ store' = store /\ pc' = pc)]_vars

\* a commit failed after a batch was committed: the second batch is lost
C5_Witness ==
  /\ IsFill /\ err = "commit" /\ pc = "failed" /\ Len(txs) = 2
  /\ txs[1].status = "committed" /\ txs[2].status = "aborted"
  /\ Len(txs[2].puts) > 0

\* ------------------------------------------------------------------ C6
\* C6: a transaction is committed at most once; only the newest transaction
\* can be open and every older one was committed; a transaction that is no
\* longer open never changes again (no put after its commit).
C6_State ==
  \A t \in TxIdx :
    /\ txs[t].calls <= 1
    /\ txs[t].status = "committed" => txs[t].calls = 1
    /\ txs[t].status = "open" => (t = Len(txs) /\ pc = "batch")
    /\ t < Len(txs) => txs[t].status = "committed"

C6_Frozen ==
  \A t \in TxIdx : txs[t].status # "open" =>
    \A u \in 1..Len(txs') : txs'[u].id = txs[t].id => txs'[u] = txs[t]

C6_OneTxAtATime ==
  /\ []C6_State
  /\ [][C6_Frozen]_vars

\* a third transaction is open while two committed ones are behind it
C6_Witness ==
  /\ pc = "batch" /\ Len(txs) = 3 /\ txs[3].status = "open"
  /\ Len(txs[3].puts) = 1 /\ txs[1].status = "committed"
  /\ Len(txs[1].puts) = 1

\* ------------------------------------------------------------------ C7
\* C7: an existing path with neither -y nor --cont makes fill fail at the
\* pre-flight check, with nothing removed, opened, begun, put or committed.
C7_AbortPolicy ==
  (IsFill /\ fs0.path # "absent" /\ ~cli.y /\ ~cli.cont /\ pc # "start") =>
    /\ pc = "failed" /\ err = "exists"
    /\ path = fs0.path /\ store = fs0.store
    /\ removes = 0 /\ opens = 0 /\ txs = <<>>

C7_Witness ==
  /\ IsFill /\ fs0.path = "dir" /\ ~cli.y /\ ~cli.cont /\ cli.n = 2
  /\ pc = "failed" /\ policy = "abort"

\* ------------------------------------------------------------------ C8
\* C8: with --cont and no -y on an existing database nothing is removed, no
\* prior key ever leaves the store, and after a successful fill every key
\* put is in the store too.
C8_ContinueKeeps ==
  (IsFill /\ fs0.path # "absent" /\ cli.cont /\ ~cli.y) =>
    /\ removes = 0
    /\ path = fs0.path
    /\ DOMAIN fs0.store \subseteq DOMAIN store
    /\ pc = "done" =>
         /\ KeysPut \subseteq DOMAIN store
         /\ Cardinality(DOMAIN store) >= Cardinality(DOMAIN fs0.store)

\* a continued fill that added two new keys and overwrote a prior one
C8_Witness ==
  /\ FillOk /\ policy = "continue" /\ cli.n = 3
  /\ DOMAIN fs0.store = {ForeignKey, FirstKey}
  /\ Cardinality(DOMAIN store) = 4
  /\ store[FirstKey] # PriorValue

\* ------------------------------------------------------------------ C9
\* C9: with n = 0 fill begins no transaction, issues no put and no commit,
\* and succeeds as soon as the engine is open.
C9_ZeroItems ==
  (IsFill /\ cli.n = 0) =>
    /\ txs = <<>>
    /\ store = fs0.store \/ policy = "overwrite"

\* ----------------------------------------------------------------- C10
\* C10: for batch_sz >= 1 the last batch of a successful fill holds
\* n mod batch_sz puts, or batch_sz puts when n is a multiple of batch_sz.
C10_FinalBatch ==
  (FillOk /\ cli.batch_sz >= 1 /\ txs # <<>>) =>
    Len(CurTx.puts) =
      (IF cli.n % cli.batch_sz # 0 THEN cli.n % cli.batch_sz ELSE cli.batch_sz)

\* ----------------------------------------------------------------- C11
\* the pool as a set
PoolSet == {keys[k] : k \in 1..Len(keys)}

\* this step hands one more put to the current transaction
IsPutStep ==
  /\ txs # <<>> /\ Len(txs') = Len(txs)
  /\ Len(txs'[Len(txs')].puts) = Len(CurTx.puts) + 1

\* the key of the put this step issued
PutKey == txs'[Len(txs')].puts[Len(CurTx.puts) + 1].key

\* the step's key is either a new key pushed to the pool, or an element of a
\* pool that the step leaves as it was; on an empty pool it is a new key
C11_Draw ==
  IsPutStep =>
    /\ \/ PutKey \notin PoolSet /\ keys' = Append(keys, PutKey)
       \/ keys' = keys /\ \E idx \in 0..(Len(keys) - 1) : keys[idx + 1] = PutKey
    /\ keys = <<>> => keys' = <<PutKey>>

\* every key put so far is in the pool
C11_InPool == KeysPut \subseteq PoolSet

\* C11: every key draw either generates a key, appends it to the pool and
\* returns it (always so on an empty pool), or returns the pool element at an
\* index in 0..len-1 and leaves the pool unchanged; every key put is in the
\* pool.
C11_LocalityRule ==
  /\ []C11_InPool
  /\ [][C11_Draw]_vars

\* a run that generated two keys and then reused the first one
C11_Witness ==
  /\ pc = "batch" /\ Len(keys) = 2 /\ Len(CurTx.puts) = 3
  /\ CurTx.puts[1].key = keys[1] /\ CurTx.puts[2].key = keys[2]
  /\ CurTx.puts[3].key = keys[1]

\* ----------------------------------------------------------------- C12
\* the keys put so far, in the order of the puts
RECURSIVE KeyLog(_)
KeyLog(ts) ==
  IF ts = <<>> THEN <<>>
  ELSE [k \in 1..Len(Head(ts).puts) |-> Head(ts).puts[k].key] \o KeyLog(Tail(ts))

\* C12: with cold = 1 no key is put twice: every put generated its own key,
\* so the puts' keys are pairwise distinct and the pool is exactly their log.
C12_AllCold ==
  (IsFill /\ cli.cold = 10) =>
    /\ \A a, b \in 1..Len(KeyLog(txs)) :
         KeyLog(txs)[a] = KeyLog(txs)[b] => a = b
    /\ err # "put" => keys = KeyLog(txs)

C12_Witness ==
  /\ FillOk /\ cli.cold = 10 /\ cli.n = 3 /\ cli.batch_sz = 2
  /\ Len(keys) = 3 /\ Cardinality(KeysPut) = 3

\* ----------------------------------------------------------------- C13
\* C13: with cold = 0 only the first draw creates a key: the pool has one
\* element from the first put on and every put uses that key.
C13_SingleHotKey ==
  (IsFill /\ cli.cold = 0) =>
    /\ Len(keys) <= 1
    /\ PutsIssued >= 1 => (Len(keys) = 1 /\ KeysPut = {keys[1]})

C13_Witness ==
  /\ FillOk /\ cli.cold = 0 /\ cli.n = 3 /\ cli.batch_sz = 2
  /\ Len(keys) = 1 /\ KeyLog(txs) = <<keys[1], keys[1], keys[1]>>

\* ----------------------------------------------------------------- C15
\* the "Commit ..." and "Inserted ..." lines printed so far
CommitLines == SelectSeq(stdout, LAMBDA l : l.t = "commit")
InsertedLines == SelectSeq(stdout, LAMBDA l : l.t = "inserted")

Committed == {t \in TxIdx : txs[t].status = "committed"}

\* the histories hold the whole run (the windows only slide in a run that
\* never ends: batch_sz = 0 with n > 0)
WholeRun == cli.batch_sz >= 1 \/ cli.n = 0

\* C15: one report follows each committed batch but the last of a successful
\* run (B batches give B - 1 reports, none before its batch's commit); the
\* k-th report states the number of puts of batch k and the number of puts of
\* batches 1..k.
C15_Reports ==
  (IsFill /\ WholeRun) =>
    /\ Len(CommitLines) =
         Cardinality(Committed) - (IF pc = "done" THEN 1 ELSE 0)
    /\ Len(InsertedLines) = Len(CommitLines)
    /\ \A k \in 1..Len(CommitLines) :
         /\ txs[k].status = "committed"
         /\ CommitLines[k].items = Len(txs[k].puts)
         /\ InsertedLines[k].items = SumPuts(SubSeq(txs, 1, k))

\* three batches of one put, two reports
C15_Witness ==
  /\ FillOk /\ cli.n = 3 /\ cli.batch_sz = 1 /\ Len(txs) = 3
  /\ Len(CommitLines) = 2 /\ InsertedLines[2].items = 2

\* ----------------------------------------------------------------- C16
\* C16: `stat` on an existing database has printed the occupancy snapshot
\* when it returns, and never changes the stored state nor begins a write
\* transaction.
C16_StatPrints ==
  (cli.subcmd = "stat" /\ fs0.path # "absent") =>
    /\ store = fs0.store /\ path = fs0.path
    /\ removes = 0 /\ txs = <<>>
    /\ pc = "done" => \E k \in 1..Len(stdout) : stdout[k].t = "stat"

\* ----------------------------------------------------------------- C17
\* `remaining` exists once the engine is open
InLoop == IsFill /\ opens >= 1

C17_State ==
  InLoop =>
    /\ remaining + PutsIssued = cli.n
    /\ 0 <= remaining /\ remaining <= cli.n

\* a step leaves remaining alone, or takes exactly 1 off it while issuing
\* exactly one put
C17_Step ==
  InLoop =>
    \/ remaining' = remaining /\ PutsIssued' = PutsIssued
    \/ remaining' = remaining - 1 /\ IsPutStep

\* C17: remaining never grows, drops by 1 with each successful put and by
\* nothing else, and remaining + puts issued = n with 0 <= remaining <= n.
C17_Remaining ==
  /\ []C17_State
  /\ [][C17_Step]_vars

C17_Witness ==
  /\ IsFill /\ pc = "batch" /\ cli.n = 3 /\ remaining = 1 /\ PutsIssued = 2

\* ----------------------------------------------------------------- C18
\* puts handed to the engine so far, the one that made it panic included
PutCalls == PutsIssued + (IF err = "put" THEN 1 ELSE 0)

C18_State ==
  IsFill => (Len(keys) <= PutCalls /\ Len(keys) <= cli.n)

\* the pool before the step is a prefix of the pool after it
C18_Prefix ==
  /\ Len(keys') >= Len(keys)
  /\ \A k \in 1..Len(keys) : keys'[k] = keys[k]

\* C18: the pool only grows, each step keeping the old pool as a prefix of
\* the new one, and it is never longer than the number of puts issued, hence
\* never longer than n.
C18_PoolGrows ==
  /\ []C18_State
  /\ [][C18_Prefix]_vars

\* two keys in the pool after three puts, the third a reuse
C18_Witness ==
  /\ IsFill /\ Len(keys) = 2 /\ PutsIssued = 3 /\ Cardinality(KeysPut) = 2

\* ----------------------------------------------------------------- C19
\* the policy the flags select for an existing path
C19_Selected ==
  IF cli.y THEN "overwrite" ELSE IF cli.cont THEN "continue" ELSE "abort"

\* C19: the pre-flight check is done before the engine is opened and applies
\* exactly one policy to an existing path: overwrite with -y (with or without
\* --cont), continue with --cont alone, abort with neither; for a path that
\* does not exist nothing is removed and fill goes on to open the engine.
C19_OnePolicy ==
  IsFill =>
    /\ pc = "start" => (opens = 0 /\ policy = "none" /\ removes = 0)
    /\ (pc # "start" /\ fs0.path # "absent") =>
         /\ policy = C19_Selected
         /\ removes = (IF policy = "overwrite" THEN 1 ELSE 0)
         /\ policy = "abort" => (opens = 0 /\ err = "exists")
    /\ (pc # "start" /\ fs0.path = "absent") =>
         /\ policy = "none" /\ removes = 0
         /\ err # "exists"

\* -y and --cont together on an existing directory: overwrite was applied
C19_Witness ==
  /\ IsFill /\ cli.y /\ cli.cont /\ fs0.path = "dir"
  /\ pc = "begin" /\ policy = "overwrite" /\ removes = 1

\* ----------------------------------------------------------------- C20
CeilDiv(a, b) == (a + b - 1) \div b

\* C20: for n >= 1 and batch_sz >= 1 a successful fill has begun and
\* committed exactly ceil(n / batch_sz) transactions; no committed
\* transaction is empty and every batch but the last holds batch_sz puts.
C20_BatchCount ==
  (IsFill /\ cli.n >= 1 /\ cli.batch_sz >= 1) =>
    /\ \A t \in Committed : Len(txs[t].puts) >= 1
    /\ \A t \in TxIdx : t < Len(txs) => Len(txs[t].puts) = cli.batch_sz
    /\ pc = "done" =>
         /\ Len(txs) = CeilDiv(cli.n, cli.batch_sz)
         /\ Committed = TxIdx

C20_Witness ==
  /\ FillOk /\ cli.n = 3 /\ cli.batch_sz = 2 /\ Len(txs) = 2
  /\ Committed = {1, 2}

\* ------------------------------------------------- two runs side by side
\* The fill loop once more, as functions of a run record, so that two runs
\* of the same command line can be stepped together.  The generator's
\* output is fixed by its seed: `stream` holds the words looked at so far,
\* and a word that no run has looked at yet is chosen when first read.

\* words are 64 bits wide in the code; the model scales them to 0..WordRange-1
WordRange == 4
Words == 0..(WordRange - 1)

\* mutant: the generator is seeded from entropy
SeedsFromEntropy == {0, 1}

\* the positions Pcg64::new(0xcafe.., 0x60e1..) can start the stream at
Seeds == {0}

\* Bernoulli: the word drawn is compared with p scaled to the word range
GenBoolAt(w, p) == w * 10 < p * WordRange

\* gen_range(0..len): the high part of word * len
GenRangeAt(w, len) == (w * len) \div WordRange

\* the stream with position pos fixed to w, unless it is fixed already
Extend(st, pos, w) ==
  IF pos \in DOMAIN st THEN st
  ELSE [x \in (DOMAIN st) \cup {pos} |-> IF x = pos THEN w ELSE st[x]]

\* the locals of fill_database after `let mut remaining = fill_ops.n`
RunInit(seed) ==
  [pc |-> "begin", rand |-> seed, keys |-> <<>>, remaining |-> cli.n,
   i |-> 0, batches |-> <<>>, err |-> "none"]

RunOut(r, st) == [run |-> r, stream |-> st]

\* an unwrap() that panics or a `?` that returns
RunStop(r, why) ==
  [r EXCEPT !.pc = IF why = "commit" THEN "failed" ELSE "panicked",
            !.err = why]

\* let mut txn = env.begin().unwrap()
RunBegin(r) ==
  [r EXCEPT !.pc = "batch", !.i = 0,
            !.batches = SatAppend(@, <<>>, MaxHist)]

RunMorePuts(r) == r.i < cli.batch_sz /\ r.remaining # 0

\* one pass of the for loop body; wc and wi are the words found at the
\* positions of gen_bool and gen_range if nobody has read them before
RunPut(r, st, wc, wi) ==
  LET asks == r.keys # <<>>
      nb == IF asks THEN GenBoolWords(cli.cold) ELSE 0
      st1 == IF nb = 1 THEN Extend(st, r.rand, wc) ELSE st
      cold == IF ~asks \/ cli.cold = 10 THEN TRUE
              ELSE GenBoolAt(st1[r.rand], cli.cold)
      p1 == r.rand + nb
      st2 == IF cold THEN st1 ELSE Extend(st1, p1, wi)
      key == IF cold THEN p1
             ELSE r.keys[GenRangeAt(st2[p1], Len(r.keys)) + 1]
      p2 == IF cold THEN p1 + KeyWords ELSE p1 + 1
      put == [key |-> key, value |-> ValueAt(p2, cli.value_sz)]
  IN RunOut([r EXCEPT !.keys = IF cold THEN Append(@, key) ELSE @,
                      !.rand = p2 + WordsFor(cli.value_sz),
                      !.batches[Len(r.batches)] = Append(@, put),
                      !.remaining = Decrement(@),
                      !.i = @ + 1],
            st2)

\* txn.commit()? and the break that follows it
RunCommit(r) ==
  [r EXCEPT !.pc = IF r.remaining = 0 THEN "done" ELSE "begin"]

RunEnded(r) == r.pc \in {"done", "failed", "panicked"}

\* what the next operation of run r can lead to
RunSteps(r, st) ==
  IF r.pc = "begin" THEN
    {RunOut(RunBegin(r), st)}
      \cup (IF cli.kind = "mdbx" THEN {RunOut(RunStop(r, "begin"), st)} ELSE {})
  ELSE IF r.pc = "batch" /\ RunMorePuts(r) THEN
    IF r.keys # <<>> /\ ~GenBoolValid(cli.cold)
      THEN {RunOut(RunStop(r, "gen_bool"), st)}
      ELSE {RunPut(r, st, wc, wi) : wc \in Words, wi \in Words}
             \cup (IF cli.kind = "mdbx"
                     THEN {RunOut(RunStop(r, "put"), st)} ELSE {})
  ELSE IF r.pc = "batch" THEN
    {RunOut(RunCommit(r), st), RunOut(RunStop(r, "commit"), st)}
  ELSE {RunOut(r, st)}

TwinCli ==
  {c \in Cli : c.subcmd = "fill" /\ ~c.y /\ ~c.cont /\ ~c.yolo}

\* two processes given the same command line, both past Engine::open
TwinInit ==
  /\ cli \in TwinCli
  /\ pc = "begin" /\ path = "dir" /\ store = EmptyStore
  /\ fs0 = [path |-> "absent", store |-> EmptyStore]
  /\ policy = "none" /\ removes = 0 /\ opens = 1 /\ flushes = 0
  /\ rand = 0 /\ keys = <<>> /\ remaining = cli.n /\ i = 0
  /\ txs = <<>> /\ begun = 0 /\ stdout = <<>> /\ err = "none"
  /\ \E s1 \in Seeds, s2 \in Seeds : twin = <<RunInit(s1), RunInit(s2)>>
  /\ stream = <<>>

\* each run that has not ended executes its next operation
TwinStep ==
  /\ ~(RunEnded(twin[1]) /\ RunEnded(twin[2]))
  /\ \E a \in RunSteps(twin[1], stream) :
       \E b \in RunSteps(twin[2], a.stream) :
         /\ twin' = <<a.run, b.run>>
         /\ stream' = b.stream
  /\ UNCHANGED <<cli, procVars>>

TwinNext == TwinStep

TwinSpec == TwinInit /\ [][TwinNext]_vars

\* ---------------------------------------------------------------- C14
\* a run that no engine call has stopped
RunFree(r) == r.err \in {"none", "gen_bool"}

\* the puts of a run, batch after batch
RECURSIVE RunPuts(_)
RunPuts(bs) == IF bs = <<>> THEN <<>> ELSE Head(bs) \o RunPuts(Tail(bs))

\* run k drew from the generator in this step exactly when it issued a put
C14_DrawsInLoop(k) ==
  twin'[k].rand # twin[k].rand
    => /\ twin[k].pc = "batch" /\ twin'[k].pc = "batch"
       /\ Len(twin'[k].batches) = Len(twin[k].batches)
       /\ Len(RunPuts(twin'[k].batches)) = Len(RunPuts(twin[k].batches)) + 1
       /\ twin'[k].rand > twin[k].rand

C14_Same ==
  (RunFree(twin[1]) /\ RunFree(twin[2])) => twin[1] = twin[2]

C14_Step == C14_DrawsInLoop(1) /\ C14_DrawsInLoop(2)

====
